---- MODULE Spec2Model ----
(***************************************************************************)
(* NudleSearch front end: the search-query flow.                           *)
(*                                                                         *)
(* A string is a sequence of Unicode code points (scalar values), so       *)
(* "/search" is <<47,115,101,97,114,99,104>>.  URLs, typed texts and the   *)
(* values extracted from a URL are all such sequences; the conversions     *)
(* between them (trim, encodeURIComponent, the URLSearchParams parser) are *)
(* computed code point by code point and byte by byte.                     *)
(***************************************************************************)
EXTENDS Integers, Sequences, FiniteSets, TLC

VARIABLES
    history,      \* the session history: a sequence of URLs
    idx,          \* position of the current entry in history
    navState,     \* Suspense boundary of the search page: "none" (home page), "pending", "ready"
    searchQuery,  \* useState of the mounted SearchBar (<<>> while none is mounted)
    encodedFrom,  \* the string whose encoding built the current URL, Null if not known
    lastEvent,    \* the handler that ran last: [kind, key, text]
    pushed        \* the targets the last handler gave to router.push

vars == <<history, idx, navState, searchQuery, encodedFrom, lastEvent, pushed>>

-----------------------------------------------------------------------------
(* Bounds *)

MaxLen == 3       \* longest typed / loaded Query String of the codec specification
MaxRawLen == 3    \* longest hand-written raw q value of the codec specification
MaxHistory == 3   \* longest session history

-----------------------------------------------------------------------------
(* Strings *)

Null == <<-1>>    \* JavaScript null (no code point is negative)

Range(s) == {s[i] : i \in 1..Len(s)}

RECURSIVE SeqsUpTo(_, _)
SeqsUpTo(S, n) ==
    IF n = 0 THEN {<<>>}
    ELSE LET shorter == SeqsUpTo(S, n - 1)
         IN  shorter \cup {Append(s, c) : s \in {t \in shorter : Len(t) = n - 1}, c \in S}

\* ECMAScript WhiteSpace and LineTerminator code points, what String.prototype.trim strips
IsWhiteSpace(c) ==
    \/ c \in {9, 10, 11, 12, 13, 32, 160, 5760, 8232, 8233, 8239, 8287, 12288, 65279}
    \/ (c >= 8192 /\ c <= 8202)

RECURSIVE TrimStart(_)
TrimStart(s) ==
    IF s # <<>> /\ IsWhiteSpace(Head(s)) THEN TrimStart(Tail(s)) ELSE s

RECURSIVE TrimEnd(_)
TrimEnd(s) ==
    IF s # <<>> /\ IsWhiteSpace(s[Len(s)]) THEN TrimEnd(SubSeq(s, 1, Len(s) - 1)) ELSE s

Trim(s) == TrimEnd(TrimStart(s))

-----------------------------------------------------------------------------
(* encodeURIComponent *)

\* A-Z a-z 0-9 - _ . ! ~ * ' ( )
IsUnreserved(c) ==
    \/ (c >= 65 /\ c <= 90)
    \/ (c >= 97 /\ c <= 122)
    \/ (c >= 48 /\ c <= 57)
    \/ c \in {45, 95, 46, 33, 126, 42, 39, 40, 41}

\* what encodeURI leaves alone on top of that: ; / ? : @ & = + $ , #
IsUriReserved(c) == c \in {59, 47, 63, 58, 64, 38, 61, 43, 36, 44, 35}

HexDigit(n) == IF n < 10 THEN 48 + n ELSE 55 + n

PercentByte(b) == <<37, HexDigit(b \div 16), HexDigit(b % 16)>>

Utf8Bytes(cp) ==
    IF cp < 128 THEN <<cp>>
    ELSE IF cp < 2048 THEN <<192 + (cp \div 64), 128 + (cp % 64)>>
    ELSE IF cp < 65536 THEN
        <<224 + (cp \div 4096), 128 + ((cp \div 64) % 64), 128 + (cp % 64)>>
    ELSE
        <<240 + (cp \div 262144), 128 + ((cp \div 4096) % 64),
          128 + ((cp \div 64) % 64), 128 + (cp % 64)>>

RECURSIVE PercentBytes(_)
PercentBytes(bytes) ==
    IF bytes = <<>> THEN <<>>
    ELSE PercentByte(Head(bytes)) \o PercentBytes(Tail(bytes))

\* a plausible slip: encodeURI used where encodeURIComponent is needed
RECURSIVE encodeURI(_)
encodeURI(s) ==
    IF s = <<>> THEN <<>>
    ELSE (IF IsUnreserved(Head(s)) \/ IsUriReserved(Head(s))
          THEN <<Head(s)>>
          ELSE PercentBytes(Utf8Bytes(Head(s)))) \o encodeURI(Tail(s))

RECURSIVE encodeURIComponent(_)
encodeURIComponent(s) ==
    IF s = <<>> THEN <<>>
    ELSE (IF IsUnreserved(Head(s))
          THEN <<Head(s)>>
          ELSE PercentBytes(Utf8Bytes(Head(s)))) \o encodeURIComponent(Tail(s))

-----------------------------------------------------------------------------
(* The URL and useSearchParams().get *)

\* the part of s before the first d (all of s if there is none)
RECURSIVE Before(_, _)
Before(s, d) ==
    IF s = <<>> \/ Head(s) = d THEN <<>> ELSE <<Head(s)>> \o Before(Tail(s), d)

\* the part of s after the first d (<<>> if there is none)
RECURSIVE After(_, _)
After(s, d) ==
    IF s = <<>> THEN <<>>
    ELSE IF Head(s) = d THEN Tail(s) ELSE After(Tail(s), d)

RECURSIVE SplitOn(_, _)
SplitOn(s, d) ==
    IF d \notin Range(s) THEN <<s>>
    ELSE <<Before(s, d)>> \o SplitOn(After(s, d), d)

PathOf(url) == Before(Before(url, 35), 63)

SearchOf(url) == After(Before(url, 35), 63)

IsHexDigit(c) ==
    (c >= 48 /\ c <= 57) \/ (c >= 65 /\ c <= 70) \/ (c >= 97 /\ c <= 102)

HexValue(c) == IF c <= 57 THEN c - 48 ELSE IF c <= 70 THEN c - 55 ELSE c - 87

HasEscapeAt(s) ==
    /\ Len(s) >= 3
    /\ s[1] = 37
    /\ IsHexDigit(s[2])
    /\ IsHexDigit(s[3])

\* WHATWG percent-decode: a % that two hex digits do not follow stays a % byte
RECURSIVE PercentDecode(_)
PercentDecode(s) ==
    IF s = <<>> THEN <<>>
    ELSE IF HasEscapeAt(s)
         THEN <<16 * HexValue(s[2]) + HexValue(s[3])>> \o PercentDecode(SubSeq(s, 4, Len(s)))
         ELSE <<Head(s)>> \o PercentDecode(Tail(s))

IsCont(b, lo, hi) == b >= lo /\ b <= hi

\* WHATWG UTF-8 decode, errors replaced by U+FFFD and the offending byte read again
RECURSIVE Utf8Decode(_)
Utf8Decode(b) ==
    IF b = <<>> THEN <<>>
    ELSE LET b1 == b[1]
             n  == Len(b)
             need == IF b1 >= 194 /\ b1 <= 223 THEN 1
                     ELSE IF b1 >= 224 /\ b1 <= 239 THEN 2
                     ELSE IF b1 >= 240 /\ b1 <= 244 THEN 3
                     ELSE 0
             lo == IF b1 = 224 THEN 160 ELSE IF b1 = 240 THEN 144 ELSE 128
             hi == IF b1 = 237 THEN 159 ELSE IF b1 = 244 THEN 143 ELSE 191
         IN  IF b1 < 128 THEN <<b1>> \o Utf8Decode(Tail(b))
             ELSE IF need = 0 THEN <<65533>> \o Utf8Decode(Tail(b))
             ELSE IF n < 2 \/ ~IsCont(b[2], lo, hi) THEN <<65533>> \o Utf8Decode(Tail(b))
             ELSE IF need = 1
                  THEN <<(b1 - 192) * 64 + (b[2] - 128)>> \o Utf8Decode(SubSeq(b, 3, n))
             ELSE IF n < 3 \/ ~IsCont(b[3], 128, 191)
                  THEN <<65533>> \o Utf8Decode(SubSeq(b, 3, n))
             ELSE IF need = 2
                  THEN <<(b1 - 224) * 4096 + (b[2] - 128) * 64 + (b[3] - 128)>>
                       \o Utf8Decode(SubSeq(b, 4, n))
             ELSE IF n < 4 \/ ~IsCont(b[4], 128, 191)
                  THEN <<65533>> \o Utf8Decode(SubSeq(b, 4, n))
             ELSE <<(b1 - 240) * 262144 + (b[2] - 128) * 4096 + (b[3] - 128) * 64 + (b[4] - 128)>>
                  \o Utf8Decode(SubSeq(b, 5, n))

PlusToSpace(s) == [i \in 1..Len(s) |-> IF s[i] = 43 THEN 32 ELSE s[i]]

FormDecode(s) == Utf8Decode(PercentDecode(PlusToSpace(s)))

\* the name=value pieces of a query, undecoded; empty pieces are skipped
RawPairs(search) ==
    LET pieces == SelectSeq(SplitOn(search, 38), LAMBDA p : p # <<>>)
    IN  [i \in 1..Len(pieces) |->
            [name |-> Before(pieces[i], 61), value |-> After(pieces[i], 61)]]

\* the undecoded value of the first parameter called name, Null if there is none
RawParam(search, name) ==
    LET hits == SelectSeq(RawPairs(search), LAMBDA p : FormDecode(p.name) = name)
    IN  IF hits = <<>> THEN Null ELSE hits[1].value

\* URLSearchParams.get
SearchParamsGet(search, name) ==
    LET raw == RawParam(search, name)
    IN  IF raw = Null THEN Null ELSE FormDecode(raw)

-----------------------------------------------------------------------------
(* Components *)

HomeURL == <<47>>                                \* "/"

SearchPath == <<47, 115, 101, 97, 114, 99, 104>> \* "/search"

\* the template literal `/search?q=${formattedQuery}`
SearchTarget(formattedQuery) == SearchPath \o <<63, 113, 61>> \o formattedQuery

\* which page shell the router renders for a URL
PageOf(url) == IF PathOf(url) = SearchPath THEN "search" ELSE "home"

\* a destructured prop with its default: { name = d }
Prop(props, name, d) == IF name \in DOMAIN props THEN props[name] ELSE d

\* <NudleLogo size="xxl" redirect="" /> of the home page
HomeLogoProps == [size |-> "xxl", redirect |-> <<>>]

\* a plausible slip: the navigation bar's logo given the home page's redirect=""
NavBarLogoPropsDisabled == [size |-> "lg", redirect |-> <<>>]

\* <NudleLogo size="lg" /> of the navigation bar
NavBarLogoProps == [size |-> "lg"]

\* <SearchBar /> of the home page
HomeSearchBarProps == [x \in {} |-> <<>>]

\* NudleLogo: redirect = '/' ; redirectEnabled = (redirect != '')
LogoRedirect(props) == Prop(props, "redirect", HomeURL)

\* a plausible slip: the guard dropped, every click pushes
handleRedirectAlways(props) == <<LogoRedirect(props)>>

\* NudleLogo.handleRedirect: the targets it gives to router.push
handleRedirect(props) ==
    IF LogoRedirect(props) # <<>> THEN <<LogoRedirect(props)>> ELSE <<>>

\* v has a % that two hex digits do not follow
MalformedEscape(v) ==
    \E i \in 1..Len(v) :
        /\ v[i] = 37
        /\ ~(i + 2 <= Len(v) /\ IsHexDigit(v[i + 1]) /\ IsHexDigit(v[i + 2]))

\* a plausible slip: a strict decoder behind a catch, a malformed value read as ''
NavBarQueryGuarded(url) ==
    LET raw == RawParam(SearchOf(url), <<113>>)
    IN  IF raw = Null \/ MalformedEscape(raw) THEN <<>> ELSE FormDecode(raw)

\* NavBar: searchParams.get('q') || ''
NavBarQuery(url) ==
    LET q == SearchParamsGet(SearchOf(url), <<113>>)
    IN  IF q = Null \/ q = <<>> THEN <<>> ELSE q

\* <SearchBar query={query}/> of the navigation bar
NavBarSearchBarProps(url) == [query |-> NavBarQuery(url)]

\* SearchBar: useState(query), query = '' by default; read at mount only
SearchBarInitial(props) == Prop(props, "query", <<>>)

\* a plausible slip: the emptiness test without the trim
handleSearchNoTrimGuard(sq) ==
    IF sq # <<>> THEN <<SearchTarget(encodeURIComponent(Trim(sq)))>> ELSE <<>>

\* a plausible slip: the untrimmed text is encoded
handleSearchUntrimmed(sq) ==
    IF Trim(sq) # <<>> THEN <<SearchTarget(encodeURIComponent(sq))>> ELSE <<>>

\* SearchBar.handleSearch: the targets it gives to router.push
handleSearch(sq) ==
    IF Trim(sq) # <<>> THEN <<SearchTarget(encodeURIComponent(Trim(sq)))>> ELSE <<>>

\* SearchBar.handleKeyDown
handleKeyDown(key, sq) == IF key = "Enter" THEN handleSearch(sq) ELSE <<>>

\* a plausible slip: the input's value normalised on every change
onChangeTrimmed(value) == Trim(value)

\* SearchBar onChange: setSearchQuery(e.target.value)
onChange(value) == value

\* a plausible slip: router.replace, which overwrites the current entry
RouterReplace(h, i, target) ==
    [history |-> SubSeq(h, 1, i - 1) \o <<target>>, idx |-> i]

\* router.push: the entries after the current one are dropped, one is added
RouterPush(h, i, target) ==
    [history |-> SubSeq(h, 1, i) \o <<target>>, idx |-> i + 1]

\* a plausible slip: the boundary keeps its fallback
SuspenseStuck(state, fallback, child) == fallback

\* <Suspense fallback={...}>child</Suspense>
Suspense(state, fallback, child) == IF state = "pending" THEN fallback ELSE child

\* what the page shell for url renders, in document order
PageView(url, state) ==
    IF PageOf(url) = "search"
    THEN <<Suspense(state, "Loading", "NavBar"), "divider", "Loading">>
    ELSE <<"NudleLogo", "SearchBar">>

-----------------------------------------------------------------------------
(* Inputs *)

\* what the user leaves in the input: "", " ", "a", " a ", "%", "a a"
TypedTexts == {<<>>, <<32>>, <<97>>, <<32, 97, 32>>, <<37>>, <<97, 32, 97>>}

Keys == {"Enter", "a", "Escape"}

\* the URLs a session is opened at: "/", "/search", "/search?q=a", "/search?q=%z"
LoadURLs ==
    { HomeURL,
      SearchPath,
      SearchTarget(<<97>>),
      SearchTarget(<<37, 122>>) }

\* code points of the exhaustively enumerated Query Strings:
\* space, no-break space, a (also a hex digit), %, +, &
QChars == {32, 160, 97, 37, 43, 38}

QStrings == SeqsUpTo(QChars, MaxLen)

\* characters of the exhaustively enumerated raw q values: % 2 0 z + C
RawChars == {37, 50, 48, 122, 43, 67}

RawValues == SeqsUpTo(RawChars, MaxRawLen)

\* "/search", "/search?x=a", "/search?q", "/search?x=a&q=a", "/search?q=&q=a",
\* "/search?q=a#q=z", "/search?q=%E2%82%AC" (the euro sign), "/search?q=%C3%A9%"
OtherSearchURLs ==
    { SearchPath,
      SearchPath \o <<63, 120, 61, 97>>,
      SearchPath \o <<63, 113>>,
      SearchPath \o <<63, 120, 61, 97, 38, 113, 61, 97>>,
      SearchPath \o <<63, 113, 61, 38, 113, 61, 97>>,
      SearchPath \o <<63, 113, 61, 97, 35, 113, 61, 122>>,
      SearchTarget(<<37, 69, 50, 37, 56, 50, 37, 65, 67>>),
      SearchTarget(<<37, 67, 51, 37, 65, 57, 37>>) }

-----------------------------------------------------------------------------
(* State *)

CurrentURL == history[idx]

Event(kind, key, text) == [kind |-> kind, key |-> key, text |-> text]

\* a SearchBar (and, on the search page, the NavBar around it) is on screen
Mounted == navState # "pending"

\* the props of the NudleLogo on screen
MountedLogoProps ==
    IF PageOf(CurrentURL) = "search" THEN NavBarLogoProps ELSE HomeLogoProps

\* the document at url, freshly loaded
Loaded(url, from) ==
    /\ history = <<url>>
    /\ idx = 1
    /\ navState = IF PageOf(url) = "search" THEN "pending" ELSE "none"
    /\ searchQuery = IF PageOf(url) = "search" THEN <<>> ELSE SearchBarInitial(HomeSearchBarProps)
    /\ encodedFrom = from
    /\ lastEvent = Event("load", "", <<>>)
    /\ pushed = <<>>

Init == \E url \in LoadURLs : Loaded(url, Null)

-----------------------------------------------------------------------------
(* Steps *)

\* the router shows history h at entry i: the page shell is kept when the page is
\* the same (component state survives, the props change), replaced otherwise
Render(h, i) ==
    LET oldPage == PageOf(CurrentURL)
        newPage == PageOf(h[i])
    IN  /\ history' = h
        /\ idx' = i
        /\ IF newPage = oldPage
           THEN UNCHANGED <<navState, searchQuery>>
           ELSE IF newPage = "search"
                THEN navState' = "pending" /\ searchQuery' = <<>>
                ELSE navState' = "none" /\ searchQuery' = SearchBarInitial(HomeSearchBarProps)

\* the router.push calls of one handler run
Dispatch(targets) ==
    /\ targets # <<>> => idx < MaxHistory
    /\ pushed' = targets
    /\ IF targets = <<>>
       THEN UNCHANGED <<history, idx, navState, searchQuery>>
       ELSE LET r == RouterPush(history, idx, targets[1])
            IN  Render(r.history, r.idx)

\* <input onChange>
Change(value) ==
    /\ Mounted
    /\ value # searchQuery
    /\ searchQuery' = onChange(value)
    /\ lastEvent' = Event("change", "", value)
    /\ pushed' = <<>>
    /\ UNCHANGED <<history, idx, navState, encodedFrom>>

\* <input onKeyDown>
KeyDown(key) ==
    /\ Mounted
    /\ Dispatch(handleKeyDown(key, searchQuery))
    /\ lastEvent' = Event("keydown", key, <<>>)
    /\ encodedFrom' = IF handleKeyDown(key, searchQuery) # <<>> THEN Trim(searchQuery) ELSE encodedFrom

\* <Search onClick>
SearchIconClick ==
    /\ Mounted
    /\ Dispatch(handleSearch(searchQuery))
    /\ lastEvent' = Event("click", "", <<>>)
    /\ encodedFrom' = IF handleSearch(searchQuery) # <<>> THEN Trim(searchQuery) ELSE encodedFrom

\* <div onClick> of the NudleLogo on screen
LogoClick ==
    /\ Mounted
    /\ Dispatch(handleRedirect(MountedLogoProps))
    /\ lastEvent' = Event("logo", "", <<>>)
    /\ encodedFrom' = IF handleRedirect(MountedLogoProps) # <<>> THEN Null ELSE encodedFrom

\* the browser's back button
Back ==
    /\ idx > 1
    /\ Render(history, idx - 1)
    /\ lastEvent' = Event("back", "", <<>>)
    /\ pushed' = <<>>
    /\ encodedFrom' = Null

\* the browser's forward button
Forward ==
    /\ idx < Len(history)
    /\ Render(history, idx + 1)
    /\ lastEvent' = Event("forward", "", <<>>)
    /\ pushed' = <<>>
    /\ encodedFrom' = Null

\* the suspended NavBar renders: useSearchParams has the query, SearchBar mounts
Resolve ==
    /\ navState = "pending"
    /\ navState' = "ready"
    /\ searchQuery' = SearchBarInitial(NavBarSearchBarProps(CurrentURL))
    /\ lastEvent' = Event("resolve", "", <<>>)
    /\ pushed' = <<>>
    /\ UNCHANGED <<history, idx, encodedFrom>>

Next ==
    \/ \E value \in TypedTexts : Change(value)
    \/ \E key \in Keys : KeyDown(key)
    \/ SearchIconClick
    \/ LogoClick
    \/ Back
    \/ Forward
    \/ Resolve

Spec == Init /\ [][Next]_vars

\* The codec specification: every Query String up to MaxLen typed on the home page
\* or loaded encoded, every raw q value up to MaxRawLen loaded; then commits and
\* the resolution of the search page.
CodecInit ==
    \/ \E s \in QStrings :
          /\ history = <<HomeURL>>
          /\ idx = 1
          /\ navState = "none"
          /\ searchQuery = onChange(s)
          /\ encodedFrom = Null
          /\ lastEvent = Event("change", "", s)
          /\ pushed = <<>>
    \/ \E s \in QStrings : Loaded(SearchTarget(encodeURIComponent(s)), s)
    \/ \E v \in RawValues : Loaded(SearchTarget(v), Null)
    \/ \E url \in OtherSearchURLs : Loaded(url, Null)

CodecNext ==
    \/ \E key \in Keys : KeyDown(key)
    \/ SearchIconClick
    \/ Resolve

SpecCodec == CodecInit /\ [][CodecNext]_vars

-----------------------------------------------------------------------------
(* Properties *)

\* the handler that ran last was a commit: the search icon clicked, or Enter pressed
IsCommit(e) == e.kind = "click" \/ (e.kind = "keydown" /\ e.key = "Enter")

Count(view, name) == Cardinality({i \in 1..Len(view) : view[i] = name})

View == PageView(CurrentURL, navState)

\* the current URL is "/search?q=" followed by a single raw value
HasPlainQ(url) ==
    /\ Len(url) >= 10
    /\ SubSeq(url, 1, 10) = <<47, 115, 101, 97, 114, 99, 104, 63, 113, 61>>
    /\ {38, 35} \cap Range(SubSeq(url, 11, Len(url))) = {}

PlainQ(url) == SubSeq(url, 11, Len(url))

\* C1: a commit (search icon or Enter) of a Query String that is empty after
\* trimming pushes nothing and leaves the URL, the history, the page and the text
\* as they were; no commit ever pushes "/search?q=" with an empty q value.
C1_EmptyCommitIsNoOp ==
    /\ [][(IsCommit(lastEvent') /\ Trim(searchQuery) = <<>>)
            => /\ pushed' = <<>>
               /\ UNCHANGED <<history, idx, navState, searchQuery>>]_vars
    /\ [](IsCommit(lastEvent) =>
            \A i \in 1..Len(pushed) : NavBarQuery(pushed[i]) # <<>>)

\* a blank, non-empty text was committed and nothing was pushed
C1_Witness ==
    /\ IsCommit(lastEvent)
    /\ searchQuery # <<>>
    /\ Trim(searchQuery) = <<>>
    /\ pushed = <<>>

\* C2: a commit (either trigger) of a Query String s that is not empty after
\* trimming pushes exactly one target, "/search?q=" followed by the percent-encoding
\* of trim(s), which becomes the current URL; the q value read back from it is
\* trim(s), without the surrounding whitespace (" a " gives "/search?q=a").
C2_CommitPushesEncodedTrimmedQuery ==
    [][(IsCommit(lastEvent') /\ Trim(searchQuery) # <<>>)
         => /\ Len(pushed') = 1
            /\ pushed'[1] = <<47, 115, 101, 97, 114, 99, 104, 63, 113, 61>>
                              \o encodeURIComponent(Trim(searchQuery))
            /\ history'[idx'] = pushed'[1]
            /\ NavBarQuery(pushed'[1]) = Trim(searchQuery)
            /\ ~IsWhiteSpace(Head(NavBarQuery(pushed'[1])))
            /\ ~IsWhiteSpace(NavBarQuery(pushed'[1])[Len(NavBarQuery(pushed'[1]))])
            /\ (searchQuery = <<32, 97, 32>>
                  => pushed'[1] = <<47, 115, 101, 97, 114, 99, 104, 63, 113, 61, 97>>)]_vars

\* a padded text was committed and one target pushed
C2_Witness ==
    /\ IsCommit(lastEvent)
    /\ navState = "ready"
    /\ searchQuery = <<32, 97, 32>>
    /\ pushed = << <<47, 115, 101, 97, 114, 99, 104, 63, 113, 61, 97>> >>
    /\ CurrentURL = pushed[1]

\* C3: whenever the mounted navigation bar gets a different extracted q value,
\* the Search Input's text becomes that value.
C3_ReseededOnChange ==
    [][(/\ navState = "ready"
        /\ navState' = "ready"
        /\ NavBarQuery(history'[idx']) # NavBarQuery(history[idx]))
         => searchQuery' = NavBarQuery(history'[idx'])]_vars

\* C4: once the search page at "/search?q=" + percent-encode(s) has resolved, the
\* value the navigation bar extracts, and seeds the Search Input with, is s
\* ("/search?q=a%20a" seeds "a a").
C4_RoundTrip ==
    /\ (navState = "ready" /\ encodedFrom # Null)
         => /\ CurrentURL = <<47, 115, 101, 97, 114, 99, 104, 63, 113, 61>>
                              \o encodeURIComponent(encodedFrom)
            /\ NavBarQuery(CurrentURL) = encodedFrom
            /\ (lastEvent.kind = "resolve" => searchQuery = encodedFrom)
    /\ (lastEvent.kind = "resolve"
          /\ CurrentURL = <<47, 115, 101, 97, 114, 99, 104, 63, 113, 61, 97, 37, 50, 48, 97>>)
         => searchQuery = <<97, 32, 97>>

\* a string with characters that need encoding went through the URL and came back
C4_Witness ==
    /\ lastEvent.kind = "resolve"
    /\ encodedFrom # Null
    /\ searchQuery = encodedFrom
    /\ Len(CurrentURL) > 10 + Len(encodedFrom)

\* C5 as stated: on the results page a click on the navigation bar's logo pushes
\* nothing and leaves URL and history as they were.
C5_NavBarLogoInert ==
    [][(lastEvent'.kind = "logo" /\ PageOf(CurrentURL) = "search")
         => /\ pushed' = <<>>
            /\ UNCHANGED <<history, idx>>]_vars

\* C5 as amended: the navigation bar's logo is the interactive variant with the
\* default redirect: a click on it pushes "/", which becomes the current URL, one
\* entry after the results page's.
C5_NavBarLogoGoesHome ==
    [][(lastEvent'.kind = "logo" /\ PageOf(CurrentURL) = "search")
         => /\ pushed' = << <<47>> >>
            /\ idx' = idx + 1
            /\ history' = SubSeq(history, 1, idx) \o << <<47>> >>
            /\ navState' = "none"]_vars

\* the logo of the results page was clicked and the home page is showing
C5_Witness ==
    /\ lastEvent.kind = "logo"
    /\ pushed = << <<47>> >>
    /\ idx > 1
    /\ PageOf(history[idx - 1]) = "search"
    /\ CurrentURL = <<47>>

\* C6: a click on a logo pushes its redirect target when that target is not the
\* empty string and pushes nothing when it is; a logo given no redirect has "/".
C6_LogoPushesIffRedirect ==
    [][lastEvent'.kind = "logo"
         => LET props == MountedLogoProps
                redirect == IF "redirect" \in DOMAIN props THEN props.redirect ELSE <<47>>
            IN  /\ (pushed' # <<>>) <=> (redirect # <<>>)
                /\ redirect # <<>> => /\ pushed' = <<redirect>>
                                      /\ history'[idx'] = redirect
                                      /\ idx' = idx + 1
                /\ redirect = <<>> => UNCHANGED <<history, idx, navState, searchQuery>>]_vars

\* both kinds of click happened: the inert one on the home page after the
\* navigating one on the results page
C6_Witness ==
    /\ lastEvent.kind = "logo"
    /\ pushed = <<>>
    /\ idx > 1
    /\ PageOf(history[idx - 1]) = "search"

C8_MalformedDegradesToEmpty ==
    (lastEvent.kind = "resolve")
      => /\ (HasPlainQ(CurrentURL) /\ MalformedEscape(PlainQ(CurrentURL)))
              => searchQuery = <<>>
         /\ 63 \notin Range(CurrentURL) => searchQuery = <<>>

\* C8 as amended: nothing is thrown and the page resolves; a URL without q seeds
\* the empty string, while a q value with a malformed percent escape seeds a
\* non-empty string that keeps the stray % as typed ("%z" seeds "%z").
C8_MalformedKeptLiterally ==
    (lastEvent.kind = "resolve")
      => /\ navState = "ready"
         /\ (HasPlainQ(CurrentURL) /\ MalformedEscape(PlainQ(CurrentURL)))
              => /\ searchQuery # <<>>
                 /\ 37 \in Range(searchQuery)
         /\ CurrentURL = <<47, 115, 101, 97, 114, 99, 104, 63, 113, 61, 37, 122>>
              => searchQuery = <<37, 122>>
         /\ 63 \notin Range(CurrentURL) => searchQuery = <<>>

\* a URL with a malformed escape has resolved
C8_Witness ==
    /\ lastEvent.kind = "resolve"
    /\ HasPlainQ(CurrentURL)
    /\ MalformedEscape(PlainQ(CurrentURL))
    /\ searchQuery = PlainQ(CurrentURL)

\* C9: a commit that navigates adds one history entry after the current one and
\* keeps every entry up to it, so that the back step that follows, which moves
\* one entry back in the same history, shows the URL that was current before.
C9_CommitPushesOneEntry ==
    /\ [][(IsCommit(lastEvent') /\ pushed' # <<>>)
            => /\ idx' = idx + 1
               /\ Len(history') = idx + 1
               /\ SubSeq(history', 1, idx) = SubSeq(history, 1, idx)
               /\ history'[idx'] = pushed'[1]]_vars
    /\ [][lastEvent'.kind = "back"
            => /\ history' = history
               /\ idx' = idx - 1
               /\ (IsCommit(lastEvent) /\ pushed # <<>>) => history'[idx'] = history[idx - 1]]_vars

\* back was pressed right after a commit changed the URL
C9_Witness ==
    /\ lastEvent.kind = "back"
    /\ idx < Len(history)
    /\ encodedFrom = Null
    /\ HasPlainQ(history[idx + 1])
    /\ history[idx + 1] # CurrentURL

\* C10: a change of the input replaces the text by the input's new value and
\* nothing else; a key other than Enter changes nothing; neither pushes. A commit
\* leaves the text of the Search Input that stays on screen as it was, untrimmed.
C10_KeystrokeFrame ==
    /\ [][lastEvent'.kind = "change"
            => /\ searchQuery' = lastEvent'.text
               /\ pushed' = <<>>
               /\ UNCHANGED <<history, idx, navState>>]_vars
    /\ [][(lastEvent'.kind = "keydown" /\ lastEvent'.key # "Enter")
            => /\ pushed' = <<>>
               /\ UNCHANGED <<history, idx, navState, searchQuery>>]_vars
    /\ [][(IsCommit(lastEvent') /\ navState' = navState) => searchQuery' = searchQuery]_vars

\* a padded text is still in the input after the commit that navigated with it
C10_Witness ==
    /\ IsCommit(lastEvent)
    /\ pushed # <<>>
    /\ navState = "ready"
    /\ searchQuery # Trim(searchQuery)

====
